---- MODULE Spec2Model ----
(***************************************************************************)
(* A model of wools: feedback derivation (pattern.rs), constraint          *)
(* derivation and matching (constraint.rs) and the composed operations     *)
(* filter, matches and solve (lib.rs).                                     *)
(*                                                                         *)
(* Positions are 1..SIZE here and 0..SIZE-1 in the source.  Characters are *)
(* one-letter strings; a character outside ASCII is written as its code    *)
(* point ("U+00E9" is e with an acute accent).                             *)
(***************************************************************************)
EXTENDS Integers, Sequences, FiniteSets, TLC

\* Word::SIZE
SIZE == 5

\* Model bounds: the letters of the alphabet over which every word is
\* enumerated, and the lengths of the candidate lists and guess sequences
\* drawn from the sample words.
NumChars == 3
MaxWords == 2
MaxGuesses == 2

Letters == <<"a", "b", "c", "d", "e", "f", "g", "h", "i", "j", "k", "l", "m",
             "n", "o", "p", "q", "r", "s", "t", "u", "v", "w", "x", "y", "z">>
Alphabet == {Letters[k] : k \in 1..NumChars}
Positions == 1..SIZE

\* struct Word: exactly SIZE normalized characters.  Words is every word over
\* the bounded alphabet.
Words == [Positions -> Alphabet]

\* Every word of Words once, in lexicographic order.
Dictionary ==
    [n \in 1..Cardinality(Words) |->
        [p \in Positions |->
            Letters[(((n - 1) \div (NumChars^(SIZE - p))) % NumChars) + 1]]]

\* The place of a letter in the alphabet.
LetterIndex(c) == CHOOSE k \in 1..NumChars : Letters[k] = c

\* One word of Words for each way of placing equal and different letters: the
\* letters of the word appear in alphabetical order of first occurrence.  The
\* source compares characters for equality only, so every word of Words
\* behaves as the word of CanonicalWords it is a renaming of.
CanonicalWords ==
    {w \in Words :
        \A p \in Positions :
            \/ LetterIndex(w[p]) = 1
            \/ \E q \in 1..(p - 1) : LetterIndex(w[q]) >= LetterIndex(w[p]) - 1}

\* Words of the tests of lib.rs, the pool for lists of candidates and
\* sequences of guesses.
SampleWords ==
    { <<"a", "p", "p", "l", "e">>, <<"p", "r", "i", "m", "e">>,
      <<"p", "l", "u", "m", "e">>, <<"s", "o", "l", "e", "s">>,
      <<"c", "o", "u", "p", "e">>, <<"l", "a", "p", "s", "e">>,
      <<"n", "e", "p", "a", "l">>, <<"e", "m", "p", "t", "y">> }

\* enum Hint
Green == "Green"
Yellow == "Yellow"
Black == "Black"
Hint == {Green, Yellow, Black}

\* [Hint; Word::SIZE]
HintSeqs == [Positions -> Hint]

\* Option::None in the [Option<Hint>; SIZE] array of from_solution_and_guess.
None == "None"

\* Sequences over S of length at most n.
SeqUpTo(S, n) == UNION {[1..k -> S] : k \in 0..n}

(***************************************************************************)
(* pattern.rs                                                              *)
(***************************************************************************)

\* Mutant of count_chars_step: a repeated character is not counted again.
count_chars_step_no_increment(chars, c) ==
    IF c \in DOMAIN chars
    THEN chars
    ELSE [d \in DOMAIN chars \cup {c} |-> IF d = c THEN 1 ELSE chars[d]]

\* One iteration of the loop of Pattern::count_chars: entry(char).or_insert(0)
\* and the increment.  A HashMap<char, usize> is a function whose DOMAIN is
\* the set of keys.
count_chars_step(chars, c) ==
    IF c \in DOMAIN chars
    THEN [chars EXCEPT ![c] = @ + 1]
    ELSE [d \in DOMAIN chars \cup {c} |-> IF d = c THEN 1 ELSE chars[d]]

RECURSIVE count_chars_from(_, _, _)
count_chars_from(word, i, chars) ==
    IF i > SIZE THEN chars
    ELSE count_chars_from(word, i + 1, count_chars_step(chars, word[i]))

\* Pattern::count_chars
count_chars(word) == count_chars_from(word, 1, <<>>)

\* The state of from_solution_and_guess between iterations: the hints array,
\* the remaining counts, and whether an unwrap or a subtraction has failed.
PatternState(h, chars, panicked) ==
    [hints |-> h, solution_chars |-> chars, panicked |-> panicked]

\* Mutant of pattern_start: the characters of the solution are not counted.
pattern_start_no_counts(solution) ==
    PatternState([i \in Positions |-> None], <<>>, FALSE)

\* let mut hints = Default::default(); let mut solution_chars = count_chars(solution)
pattern_start(solution) ==
    PatternState([i \in Positions |-> None], count_chars(solution), FALSE)

\* Mutant of pass1_step: an exact match does not take an occurrence from the
\* remaining counts.
pass1_step_no_decrement(solution, guess, i, st) ==
    IF st.panicked \/ guess[i] # solution[i] THEN st
    ELSE [st EXCEPT !.hints[i] = Green]

\* Body of the first loop at position i: an exact match takes one occurrence
\* from the remaining counts and is Green.
pass1_step(solution, guess, i, st) ==
    IF st.panicked \/ guess[i] # solution[i] THEN st
    ELSE IF guess[i] \notin DOMAIN st.solution_chars
              \/ st.solution_chars[guess[i]] = 0
         THEN [st EXCEPT !.panicked = TRUE]
         ELSE [st EXCEPT !.solution_chars[guess[i]] = @ - 1,
                         !.hints[i] = Green]

\* Mutant of pass2_step: a position that already has a hint is not skipped.
pass2_step_no_continue(guess, i, st) ==
    IF st.panicked THEN st
    ELSE IF guess[i] \notin DOMAIN st.solution_chars
              \/ st.solution_chars[guess[i]] = 0
         THEN [st EXCEPT !.hints[i] = Black]
         ELSE [st EXCEPT !.solution_chars[guess[i]] = @ - 1,
                         !.hints[i] = Yellow]

\* Mutant of pass2_step: the pending positions are visited from the right.
pass2_step_reversed(guess, i, st) ==
    LET j == SIZE + 1 - i
    IN IF st.panicked \/ st.hints[j] # None THEN st
       ELSE IF guess[j] \notin DOMAIN st.solution_chars
                 \/ st.solution_chars[guess[j]] = 0
            THEN [st EXCEPT !.hints[j] = Black]
            ELSE [st EXCEPT !.solution_chars[guess[j]] = @ - 1,
                            !.hints[j] = Yellow]

\* Body of the second loop at position i: a pending position is Yellow while
\* an occurrence remains, Black otherwise.
pass2_step(guess, i, st) ==
    IF st.panicked \/ st.hints[i] # None THEN st
    ELSE IF guess[i] \notin DOMAIN st.solution_chars
              \/ st.solution_chars[guess[i]] = 0
         THEN [st EXCEPT !.hints[i] = Black]
         ELSE [st EXCEPT !.solution_chars[guess[i]] = @ - 1,
                         !.hints[i] = Yellow]

\* hints.into_iter().map(|hint| hint.unwrap()): fails on a None.
collect_step(st) ==
    IF \E i \in Positions : st.hints[i] = None
    THEN [st EXCEPT !.panicked = TRUE]
    ELSE st

RECURSIVE pass1_from(_, _, _, _)
pass1_from(solution, guess, i, st) ==
    IF i > SIZE THEN st
    ELSE pass1_from(solution, guess, i + 1, pass1_step(solution, guess, i, st))

RECURSIVE pass2_from(_, _, _)
pass2_from(guess, i, st) ==
    IF i > SIZE THEN st
    ELSE pass2_from(guess, i + 1, pass2_step(guess, i, st))

\* struct Pattern
Pattern(guess, hints) == [guess |-> guess, hints |-> hints]

\* Pattern::from_solution_and_guess
from_solution_and_guess(solution, guess) ==
    LET st == collect_step(
                  pass2_from(guess, 1,
                      pass1_from(solution, guess, 1, pattern_start(solution))))
    IN Pattern(guess, st.hints)

\* Pattern::from_guess_and_hints
from_guess_and_hints(guess, hints) == Pattern(guess, hints)

(***************************************************************************)
(* constraint.rs                                                           *)
(***************************************************************************)

\* enum Constraint { AtLeast { positions, count, char }, AtMost { .. } }.
\* positions is only ever read through contains(), so it is kept as a set.
AtLeast(positions, count, char) ==
    [kind |-> "AtLeast", positions |-> positions, count |-> count, char |-> char]
AtMost(positions, count, char) ==
    [kind |-> "AtMost", positions |-> positions, count |-> count, char |-> char]

\* Mutant of lock: the locked position need not hold the character.
lock_count_zero(position, char) == AtLeast({position}, 0, char)

\* Constraint::lock
lock(position, char) == AtLeast({position}, 1, char)

\* Mutant of forbid: the character may stand at the position.
forbid_nothing(position, char) == AtMost({position}, 1, char)

\* Constraint::forbid
forbid(position, char) == AtMost({position}, 0, char)

\* Mutant of at_least: one occurrence less is asked for.
at_least_one_less(count, positions, char) == AtLeast(positions, count - 1, char)

\* Constraint::at_least
at_least(count, positions, char) == AtLeast(positions, count, char)

\* Mutant of at_most: one occurrence more is allowed.
at_most_one_more(count, positions, char) == AtMost(positions, count + 1, char)

\* Constraint::at_most
at_most(count, positions, char) == AtMost(positions, count, char)

\* Constraint::not_at
not_at(positions) == {i \in Positions : i \notin positions}

\* Constraint::matches
Constraint_matches(constraint, word) ==
    LET char_count == Cardinality({i \in Positions :
                          i \in constraint.positions /\ word[i] = constraint.char})
    IN IF constraint.kind = "AtLeast"
       THEN char_count >= constraint.count
       ELSE char_count <= constraint.count

\* The first loop of Constraints::from_pattern: the (position, hint) pairs of
\* each character of the guess.
hints_by_char(pattern) ==
    [c \in {pattern.guess[i] : i \in Positions} |->
        {<<i, pattern.hints[i]>> : i \in {j \in Positions : pattern.guess[j] = c}}]

\* Mutant of position_constraints: only the Green hints give a constraint.
position_constraints_lock_only(char, hints) ==
    {lock(ih[1], char) : ih \in {jh \in hints : jh[2] = Green}}

\* The per-position constraints of one character (lock or forbid).
position_constraints(char, hints) ==
    {IF ih[2] = Green THEN lock(ih[1], char) ELSE forbid(ih[1], char) : ih \in hints}

\* Mutant of counting_constraints: Black hints put no upper bound on the count.
counting_constraints_no_upper(char, hints) ==
    LET yellow_count == Cardinality({ih \in hints : ih[2] = Yellow})
        green_positions == {ih[1] : ih \in {jh \in hints : jh[2] = Green}}
    IN IF yellow_count > 0
       THEN {at_least(yellow_count, not_at(green_positions), char)}
       ELSE {}

\* Mutant of counting_constraints: the upper bound counts the Green positions
\* as well.
counting_constraints_green_counted(char, hints) ==
    LET yellow_count == Cardinality({ih \in hints : ih[2] = Yellow})
        black_count == Cardinality({ih \in hints : ih[2] = Black})
        green_positions == {ih[1] : ih \in {jh \in hints : jh[2] = Green}}
    IN IF yellow_count > 0 \/ black_count > 0
       THEN (IF yellow_count > 0
             THEN {at_least(yellow_count, not_at(green_positions), char)}
             ELSE {})
            \cup
            (IF black_count > 0
             THEN {at_most(yellow_count, Positions, char)}
             ELSE {})
       ELSE {}

\* The counting constraints of one character.
counting_constraints(char, hints) ==
    LET yellow_count == Cardinality({ih \in hints : ih[2] = Yellow})
        black_count == Cardinality({ih \in hints : ih[2] = Black})
        green_positions == {ih[1] : ih \in {jh \in hints : jh[2] = Green}}
    IN IF yellow_count > 0 \/ black_count > 0
       THEN (IF yellow_count > 0
             THEN {at_least(yellow_count, not_at(green_positions), char)}
             ELSE {})
            \cup
            (IF black_count > 0
             THEN {at_most(yellow_count, not_at(green_positions), char)}
             ELSE {})
       ELSE {}

\* Constraints::from_pattern.  The Vec of constraints is only ever used through
\* all(), so the order and the multiplicity of its elements play no part and it
\* is kept as a set.
from_pattern(pattern) ==
    LET by_char == hints_by_char(pattern)
    IN UNION {position_constraints(c, by_char[c]) \cup counting_constraints(c, by_char[c])
              : c \in DOMAIN by_char}

\* Constraints::matches
Constraints_matches(constraints, word) ==
    \A constraint \in constraints : Constraint_matches(constraint, word)

(***************************************************************************)
(* lib.rs                                                                  *)
(***************************************************************************)

\* The filter closure shared by filter and solve: every Constraints matches.
all_match(constraints, word) ==
    \A k \in 1..Len(constraints) : Constraints_matches(constraints[k], word)

\* Mutant of filter: the kept candidates are returned last to first.
filter_reversed(ws, sol, gs) ==
    LET constraints == [k \in 1..Len(gs) |->
                           from_pattern(from_solution_and_guess(sol, gs[k]))]
        kept == SelectSeq(ws, LAMBDA word : all_match(constraints, word))
    IN [k \in 1..Len(kept) |-> kept[Len(kept) + 1 - k]]

\* Mutant of filter: only the first guess constrains the candidates.
filter_first_guess_only(ws, sol, gs) ==
    LET constraints == [k \in 1..(IF Len(gs) > 0 THEN 1 ELSE 0) |->
                           from_pattern(from_solution_and_guess(sol, gs[k]))]
    IN SelectSeq(ws, LAMBDA word : all_match(constraints, word))

\* wools::filter
filter(ws, sol, gs) ==
    LET constraints == [k \in 1..Len(gs) |->
                           from_pattern(from_solution_and_guess(sol, gs[k]))]
    IN SelectSeq(ws, LAMBDA word : all_match(constraints, word))

\* Mutant of matches: the candidate and the solution change places.
matches_swapped(ws, sol, hs) ==
    SelectSeq(ws, LAMBDA word : from_solution_and_guess(word, sol).hints = hs)

\* wools::matches
matches(ws, sol, hs) ==
    SelectSeq(ws, LAMBDA word : from_solution_and_guess(sol, word).hints = hs)

\* Mutant of solve: the first of the kept candidates is left out.
solve_without_first(ws, ghs) ==
    LET constraints == [k \in 1..Len(ghs) |->
                           from_pattern(from_guess_and_hints(ghs[k][1], ghs[k][2]))]
        kept == SelectSeq(ws, LAMBDA word : all_match(constraints, word))
    IN IF kept = <<>> THEN kept ELSE Tail(kept)

\* Mutant of solve: a candidate is kept when any one Constraints matches.
solve_any_match(ws, ghs) ==
    LET constraints == [k \in 1..Len(ghs) |->
                           from_pattern(from_guess_and_hints(ghs[k][1], ghs[k][2]))]
    IN SelectSeq(ws, LAMBDA word :
           \E k \in 1..Len(constraints) : Constraints_matches(constraints[k], word))

\* wools::solve
solve(ws, ghs) ==
    LET constraints == [k \in 1..Len(ghs) |->
                           from_pattern(from_guess_and_hints(ghs[k][1], ghs[k][2]))]
    IN SelectSeq(ws, LAMBDA word : all_match(constraints, word))

(***************************************************************************)
(* word.rs                                                                 *)
(***************************************************************************)

\* Result::Ok and Result::Err
Ok(value) == [ok |-> TRUE, value |-> value]
Err(error) == [ok |-> FALSE, error |-> error]

UpperLetters == <<"A", "B", "C", "D", "E", "F", "G", "H", "I", "J", "K", "L", "M",
                  "N", "O", "P", "Q", "R", "S", "T", "U", "V", "W", "X", "Y", "Z">>

\* char::to_lowercase: the ASCII capitals, the capital of an accented letter,
\* and the one character here whose lowercase is two characters (a capital I
\* with a dot gives i and the combining dot, written "U+0307"); every other
\* character is its own lowercase.
char_to_lowercase(c) ==
    IF \E k \in 1..26 : UpperLetters[k] = c
    THEN <<Letters[CHOOSE k \in 1..26 : UpperLetters[k] = c]>>
    ELSE IF c = "U+00C9" THEN <<"U+00E9">>
    ELSE IF c = "U+0130" THEN <<"i", "U+0307">>
    ELSE <<c>>

RECURSIVE to_lowercase_from(_, _)
to_lowercase_from(s, n) ==
    IF n > Len(s) THEN <<>>
    ELSE char_to_lowercase(s[n]) \o to_lowercase_from(s, n + 1)

\* str::to_lowercase
to_lowercase(s) == to_lowercase_from(s, 1)

\* The match of Word::from_str: accented letters lose their accent.
transliterate(c) ==
    CASE c \in {"U+00E9", "U+00EA", "U+00EB"} -> "e"
      [] c \in {"U+00F3", "U+00F4", "U+00F6"} -> "o"
      [] c = "U+00E0" -> "a"
      [] c = "U+00FC" -> "u"
      [] c = "U+00F1" -> "n"
      [] OTHER -> c

\* Word::from_str.  The length is that of the text as given.
Word_from_str(word) ==
    IF Len(word) # SIZE
    THEN Err("word is not 5-character long")
    ELSE LET lower == to_lowercase(word)
             normalized == [p \in 1..Len(lower) |-> transliterate(lower[p])]
         IN IF \A p \in 1..Len(normalized) :
                   \E k \in 1..26 : Letters[k] = normalized[p]
            THEN Ok(normalized)
            ELSE Err("word contains non-alphabetical characters")

(***************************************************************************)
(* main.rs                                                                 *)
(***************************************************************************)

\* The match of parse_hints.
hint_of(c) == IF c = "g" THEN Green ELSE IF c = "y" THEN Yellow ELSE Black

\* Mutant of parse_hints: the length of the text is not looked at.
parse_hints_any_length(s) ==
    LET lower == to_lowercase(s)
    IN IF ~ \A p \in 1..Len(lower) : lower[p] \in {"g", "y", "b"}
       THEN Err("pattern contains unsupported characters")
       ELSE Ok([p \in 1..Len(lower) |-> hint_of(lower[p])])

\* parse_hints.  The length is that of the lowercase text.
parse_hints(s) ==
    LET lower == to_lowercase(s)
    IN IF Len(lower) # SIZE
       THEN Err("pattern is not five-character long")
       ELSE IF ~ \A p \in 1..Len(lower) : lower[p] \in {"g", "y", "b"}
            THEN Err("pattern contains unsupported characters")
            ELSE Ok([p \in 1..Len(lower) |-> hint_of(lower[p])])

\* str::split: the parts of s between the separators, from the n-th character
\* on, part being the characters of the current part read so far.
RECURSIVE split_from(_, _, _, _)
split_from(s, sep, n, part) ==
    IF n > Len(s) THEN <<part>>
    ELSE IF s[n] = sep
         THEN <<part>> \o split_from(s, sep, n + 1, <<>>)
         ELSE split_from(s, sep, n + 1, Append(part, s[n]))

split(s, sep) == split_from(s, sep, 1, <<>>)

\* parse_guess_and_hints
parse_guess_and_hints(s) ==
    LET parts == split(s, ",")
    IN IF Len(parts) # 2
       THEN Err("input cannot be split in two")
       ELSE LET word == Word_from_str(parts[1])
                hs == parse_hints(parts[2])
            IN IF ~word.ok THEN Err(word.error)
               ELSE IF ~hs.ok THEN Err(hs.error)
               ELSE Ok(<<word.value, hs.value>>)

RECURSIVE dedup_from(_, _, _)
dedup_from(ws, n, kept) ==
    IF n > Len(ws) THEN kept
    ELSE IF kept # <<>> /\ kept[Len(kept)] = ws[n]
         THEN dedup_from(ws, n + 1, kept)
         ELSE dedup_from(ws, n + 1, Append(kept, ws[n]))

\* Vec::dedup: of consecutive equal elements only the first is kept.
dedup(ws) == dedup_from(ws, 1, <<>>)

\* The two filter_map of load_words on one line: a line that cannot be read
\* and a line that is not a Word are passed over.
load_words_step(ws, line) ==
    IF line.ok /\ Word_from_str(line.value).ok
    THEN Append(ws, Word_from_str(line.value).value)
    ELSE ws

(***************************************************************************)
(* State.  One run evaluates one operation on inputs fixed at the start.   *)
(* A variable an operation does not use keeps the value Unused.            *)
(***************************************************************************)
VARIABLES
    pc,                 \* where the run is
    input,              \* text from outside: file lines or an argument
    words,              \* the candidate list
    solution,           \* the solution Word
    guess,              \* the guess Word of a single pattern
    guesses,            \* the guesses of filter
    hints,              \* an externally supplied hint sequence
    guesses_and_hints,  \* the (guess, hints) pairs of solve
    st,                 \* locals of from_solution_and_guess
    i,                  \* loop position of from_solution_and_guess
    pattern,            \* a constructed Pattern
    constraints,        \* a constructed Constraints
    result              \* what the operation returned

vars == <<pc, input, words, solution, guess, guesses, hints, guesses_and_hints,
          st, i, pattern, constraints, result>>

Unused == "Unused"

(***************************************************************************)
(* Feedback derivation, one loop iteration per step.                       *)
(***************************************************************************)
InitPattern ==
    /\ pc = "start"
    /\ input = Unused
    /\ solution \in Words
    /\ guess \in Words
    /\ words = Unused /\ guesses = Unused /\ hints = Unused
    /\ guesses_and_hints = Unused /\ st = Unused /\ i = 0
    /\ pattern = Unused /\ constraints = Unused
    /\ result = Unused

\* Lines 31-32: the empty hints array and the counts of the solution.
PatternStart ==
    /\ pc = "start"
    /\ st' = pattern_start(solution)
    /\ i' = 1
    /\ pc' = "pass1"
    /\ UNCHANGED <<input, words, solution, guess, guesses, hints, guesses_and_hints,
                   pattern, constraints, result>>

\* Lines 34-39: one iteration of the first loop.
Pass1 ==
    /\ pc = "pass1"
    /\ ~st.panicked
    /\ st' = pass1_step(solution, guess, i, st)
    /\ IF i = SIZE THEN i' = 1 /\ pc' = "pass2" ELSE i' = i + 1 /\ pc' = pc
    /\ UNCHANGED <<input, words, solution, guess, guesses, hints, guesses_and_hints,
                   pattern, constraints, result>>

\* Lines 41-55: one iteration of the second loop.
Pass2 ==
    /\ pc = "pass2"
    /\ ~st.panicked
    /\ st' = pass2_step(guess, i, st)
    /\ IF i = SIZE THEN i' = 0 /\ pc' = "collect" ELSE i' = i + 1 /\ pc' = pc
    /\ UNCHANGED <<input, words, solution, guess, guesses, hints, guesses_and_hints,
                   pattern, constraints, result>>

\* Lines 57-65: unwrap every hint and build the Pattern.
Collect ==
    /\ pc = "collect"
    /\ ~st.panicked
    /\ st' = collect_step(st)
    /\ IF st'.panicked
       THEN pc' = "panicked" /\ pattern' = pattern
       ELSE pc' = "done" /\ pattern' = Pattern(guess, st'.hints)
    /\ UNCHANGED <<input, words, solution, guess, guesses, hints, guesses_and_hints,
                   i, constraints, result>>

NextPattern == PatternStart \/ Pass1 \/ Pass2 \/ Collect

SpecPattern == InitPattern /\ [][NextPattern]_vars

(***************************************************************************)
(* Constraint derivation and matching for one pattern given as a guess and *)
(* a hint sequence, and one candidate.                                     *)
(***************************************************************************)
InitConstraints ==
    /\ pc = "start"
    /\ input = Unused
    /\ guess \in CanonicalWords
    /\ hints \in HintSeqs
    /\ words = Unused /\ solution = Unused /\ guesses = Unused
    /\ guesses_and_hints = Unused /\ st = Unused /\ i = 0
    /\ pattern = Unused /\ constraints = Unused
    /\ result = Unused

MakePattern ==
    /\ pc = "start"
    /\ pattern' = from_guess_and_hints(guess, hints)
    /\ pc' = "pattern"
    /\ UNCHANGED <<input, words, solution, guess, guesses, hints, guesses_and_hints,
                   st, i, constraints, result>>

DeriveConstraints ==
    /\ pc = "pattern"
    /\ constraints' = from_pattern(pattern)
    /\ pc' = "constraints"
    /\ UNCHANGED <<input, words, solution, guess, guesses, hints, guesses_and_hints,
                   st, i, pattern, result>>

\* Constraints::matches, called for every word over the alphabet; result holds
\* the words for which the call returned true.
Match ==
    /\ pc = "constraints"
    /\ result' = {w \in Words : Constraints_matches(constraints, w)}
    /\ pc' = "matched"
    /\ UNCHANGED <<input, words, solution, guess, guesses, hints, guesses_and_hints,
                   st, i, pattern, constraints>>

NextConstraints == MakePattern \/ DeriveConstraints \/ Match

SpecConstraints == InitConstraints /\ [][NextConstraints]_vars

(***************************************************************************)
(* filter, and solve given the hints the solution produces for each guess. *)
(***************************************************************************)
InitFilter ==
    /\ pc = "start"
    /\ input = Unused
    /\ \/ /\ words \in SeqUpTo(SampleWords, MaxWords)
          /\ solution \in SampleWords
          /\ guesses \in SeqUpTo(SampleWords, MaxGuesses)
       \/ /\ words = Dictionary
          /\ solution \in CanonicalWords
          /\ guesses \in [1..1 -> Words]
    /\ guess = Unused /\ hints = Unused
    /\ guesses_and_hints = Unused /\ st = Unused /\ i = 0
    /\ pattern = Unused /\ constraints = Unused
    /\ result = Unused

Filter ==
    /\ pc = "start"
    /\ result' = filter(words, solution, guesses)
    /\ pc' = "filter"
    /\ UNCHANGED <<input, words, solution, guess, guesses, hints, guesses_and_hints,
                   st, i, pattern, constraints>>

\* The hints reported for each guess are those of the solution.
Solve ==
    /\ pc = "start"
    /\ guesses_and_hints' =
          [k \in 1..Len(guesses) |->
              <<guesses[k], from_solution_and_guess(solution, guesses[k]).hints>>]
    /\ result' = solve(words, guesses_and_hints')
    /\ pc' = "solve"
    /\ UNCHANGED <<input, words, solution, guess, guesses, hints,
                   st, i, pattern, constraints>>

NextFilter == Filter \/ Solve

SpecFilter == InitFilter /\ [][NextFilter]_vars

(***************************************************************************)
(* matches for a target hint sequence.                                     *)
(***************************************************************************)
InitMatches ==
    /\ pc = "start"
    /\ input = Unused
    /\ \/ /\ words \in SeqUpTo(SampleWords, MaxWords)
          /\ solution \in SampleWords
       \/ /\ words = Dictionary
          /\ solution \in CanonicalWords
    /\ hints \in HintSeqs
    /\ guess = Unused /\ guesses = Unused
    /\ guesses_and_hints = Unused /\ st = Unused /\ i = 0
    /\ pattern = Unused /\ constraints = Unused
    /\ result = Unused

Matches ==
    /\ pc = "start"
    /\ result' = matches(words, solution, hints)
    /\ pc' = "matches"
    /\ UNCHANGED <<input, words, solution, guess, guesses, hints, guesses_and_hints,
                   st, i, pattern, constraints>>

NextMatches == Matches

SpecMatches == InitMatches /\ [][NextMatches]_vars

(***************************************************************************)
(* filter, solve and matches on one candidate list: the three operations   *)
(* of lib.rs that return a part of the list they are given.                *)
(***************************************************************************)

\* The hint sequences the solution s gives to the sample words.
SampleHints(s) == {from_solution_and_guess(s, w).hints : w \in SampleWords}

InitLists ==
    /\ pc = "start"
    /\ input = Unused
    /\ words \in SeqUpTo(SampleWords, MaxWords)
    /\ solution \in SampleWords
    /\ guesses \in SeqUpTo(SampleWords, MaxGuesses)
    /\ hints \in SampleHints(solution)
    /\ guess = Unused
    /\ guesses_and_hints = Unused /\ st = Unused /\ i = 0
    /\ pattern = Unused /\ constraints = Unused
    /\ result = Unused

\* solve for guesses that all come with the hint sequence hints, whether or
\* not a solution gives them that sequence.
SolveGiven ==
    /\ pc = "start"
    /\ guesses_and_hints' = [k \in 1..Len(guesses) |-> <<guesses[k], hints>>]
    /\ result' = solve(words, guesses_and_hints')
    /\ pc' = "solve"
    /\ UNCHANGED <<input, words, solution, guess, guesses, hints,
                   st, i, pattern, constraints>>

NextLists == Filter \/ Solve \/ SolveGiven \/ Matches

SpecLists == InitLists /\ [][NextLists]_vars

(***************************************************************************)
(* load_words, one line of the dictionary file per step.                   *)
(***************************************************************************)

\* The longest dictionary file.
MaxLines == 3

\* Lines of a dictionary file, as BufRead::lines yields them: words, words in
\* capitals or with accents, texts that are no Word, and a line that cannot
\* be read.
SampleLines ==
    { Ok(<<"a", "p", "p", "l", "e">>), Ok(<<"A", "P", "P", "L", "E">>),
      Ok(<<"p", "r", "i", "m", "e">>),
      Ok(<<"s", "a", "u", "t", "e">>), Ok(<<"s", "a", "u", "t", "U+00E9">>),
      Ok(<<"c", "u", "t">>), Ok(<<"p", "o", "t", "a", "t", "o">>),
      Ok(<<"d", "o", "n", "'", "t">>),
      Err("stream did not contain valid UTF-8") }

\* input is what File::open returns: the lines of the file, or the error.
InitLoad ==
    /\ pc = "start"
    /\ input \in {Ok(lines) : lines \in SeqUpTo(SampleLines, MaxLines)}
                     \cup {Err("No such file or directory")}
    /\ words = Unused /\ solution = Unused /\ guess = Unused
    /\ guesses = Unused /\ hints = Unused
    /\ guesses_and_hints = Unused /\ st = Unused /\ i = 0
    /\ pattern = Unused /\ constraints = Unused
    /\ result = Unused

\* Line 114: File::open, and the early return of its error.
OpenFile ==
    /\ pc = "start"
    /\ IF input.ok
       THEN words' = <<>> /\ i' = 1 /\ pc' = "lines" /\ result' = result
       ELSE words' = words /\ i' = i /\ pc' = "failed" /\ result' = Err(input.error)
    /\ UNCHANGED <<input, solution, guess, guesses, hints, guesses_and_hints,
                   st, pattern, constraints>>

\* Lines 115-119: the next line of the file goes through the two filter_map.
ReadLine ==
    /\ pc = "lines"
    /\ i <= Len(input.value)
    /\ words' = load_words_step(words, input.value[i])
    /\ i' = i + 1
    /\ UNCHANGED <<pc, input, solution, guess, guesses, hints, guesses_and_hints,
                   st, pattern, constraints, result>>

\* Lines 119-121: the file is read; collect, words.dedup() and Ok(words).
ReturnWords ==
    /\ pc = "lines"
    /\ i > Len(input.value)
    /\ words' = dedup(words)
    /\ result' = Ok(words')
    /\ pc' = "loaded"
    /\ UNCHANGED <<input, solution, guess, guesses, hints, guesses_and_hints,
                   st, i, pattern, constraints>>

NextLoad == OpenFile \/ ReadLine \/ ReturnWords

SpecLoad == InitLoad /\ [][NextLoad]_vars

(***************************************************************************)
(* The arguments of the subcommands match and solve: parse_hints and        *)
(* parse_guess_and_hints, and the call of the core for a parsed argument.  *)
(***************************************************************************)

\* The longest text given as a hint sequence.
MaxHintChars == 6

\* The characters of a text given as a hint sequence.
HintChars == {"g", "y", "b", "G", "x", "U+0130"}

\* Texts given where a hint sequence is expected.
HintTexts == SeqUpTo(HintChars, MaxHintChars)

\* Texts given where a guess is expected.
GuessTexts == { <<"c", "o", "u", "p", "e">>, <<"c", "u", "t">> }

\* The candidate list of the tests of lib.rs.
TestWords ==
    << <<"a", "p", "p", "l", "e">>, <<"p", "r", "i", "m", "e">>,
       <<"p", "l", "u", "m", "e">>, <<"t", "o", "r", "c", "h">>,
       <<"w", "a", "t", "c", "h">>, <<"s", "o", "l", "e", "s">> >>

\* input is one command-line argument: a text without a comma, a guess and a
\* text with a comma between them, or a text with two commas.
InitParse ==
    /\ pc = "start"
    /\ \/ input \in HintTexts
       \/ \E g \in GuessTexts, h \in HintTexts : input = g \o <<",">> \o h
       \/ \E g \in GuessTexts : input = g \o <<",">> \o g \o <<",">> \o g
    /\ words = TestWords
    /\ solution = TestWords[1]
    /\ guess = Unused /\ guesses = Unused /\ hints = Unused
    /\ guesses_and_hints = Unused /\ st = Unused /\ i = 0
    /\ pattern = Unused /\ constraints = Unused
    /\ result = Unused

\* The argument PATTERN of the subcommand match.
ParseHints ==
    /\ pc = "start"
    /\ result' = parse_hints(input)
    /\ pc' = "parse_hints"
    /\ UNCHANGED <<input, words, solution, guess, guesses, hints, guesses_and_hints,
                   st, i, pattern, constraints>>

\* An argument GUESS of the subcommand solve.
ParseGuessAndHints ==
    /\ pc = "start"
    /\ result' = parse_guess_and_hints(input)
    /\ pc' = "parse_guess_and_hints"
    /\ UNCHANGED <<input, words, solution, guess, guesses, hints, guesses_and_hints,
                   st, i, pattern, constraints>>

\* Command::Match: reached with the value parse_hints returned, never with an
\* error.
CommandMatch ==
    /\ pc = "parse_hints"
    /\ result.ok
    /\ hints' = result.value
    /\ result' = matches(words, solution, hints')
    /\ pc' = "matches"
    /\ UNCHANGED <<input, words, solution, guess, guesses, guesses_and_hints,
                   st, i, pattern, constraints>>

\* Command::Solve: reached with the pair parse_guess_and_hints returned.
CommandSolve ==
    /\ pc = "parse_guess_and_hints"
    /\ result.ok
    /\ guesses_and_hints' = <<result.value>>
    /\ result' = solve(words, guesses_and_hints')
    /\ pc' = "solve"
    /\ UNCHANGED <<input, words, solution, guess, guesses, hints,
                   st, i, pattern, constraints>>

NextParse == ParseHints \/ ParseGuessAndHints \/ CommandMatch \/ CommandSolve

SpecParse == InitParse /\ [][NextParse]_vars

(***************************************************************************)
(* Properties of feedback derivation (SpecPattern).                        *)
(***************************************************************************)

\* The positions of w holding c.
Occ(w, c) == {p \in Positions : w[p] = c}

\* The positions of the guess holding c whose hint in the finished pattern is h.
Hinted(c, h) == {p \in Occ(guess, c) : pattern.hints[p] = h}

\* The positions where the guess and the solution both hold c.
Matching(c) == {p \in Positions : guess[p] = c /\ solution[p] = c}

\* C2: the hint at a position is Green exactly when the guess and the solution
\* hold the same character there; a guess equal to the solution is all Green.
C2_GreenIffEqual ==
    pc = "done" =>
        /\ \A p \in Positions :
              (pattern.hints[p] = Green) <=> (guess[p] = solution[p])
        /\ (guess = solution => \A p \in Positions : pattern.hints[p] = Green)

\* C2 witness: a finished pattern with a Green position and a position that is
\* not Green although its character occurs in the solution.
C2_Witness ==
    /\ pc = "done"
    /\ \E p, q \in Positions :
          /\ pattern.hints[p] = Green
          /\ pattern.hints[q] # Green
          /\ Occ(solution, guess[q]) # {}

\* C3: among the positions of a character that are not Green, no Black lies
\* to the left of a Yellow; when the solution holds c once and the guess holds
\* c twice, both away from the solution's c, the earlier is Yellow and the
\* later is Black.
C3_TieBreak ==
    pc = "done" =>
        /\ \A p, q \in Positions :
              (p < q /\ guess[p] = guess[q] /\ pattern.hints[p] = Black)
                  => pattern.hints[q] # Yellow
        /\ \A c \in Alphabet : \A p, q \in Positions :
              (/\ p < q
               /\ Occ(guess, c) = {p, q}
               /\ Matching(c) = {}
               /\ Cardinality(Occ(solution, c)) = 1)
                  => (pattern.hints[p] = Yellow /\ pattern.hints[q] = Black)

\* C3 witness: a finished pattern for a solution with one c and a guess with
\* two c, neither at the solution's position.
C3_Witness ==
    /\ pc = "done"
    /\ \E c \in Alphabet : \E p, q \in Positions :
          /\ p < q
          /\ Occ(guess, c) = {p, q}
          /\ Matching(c) = {}
          /\ Cardinality(Occ(solution, c)) = 1

\* C4: for every character, Green plus Yellow hints are at most its occurrences
\* in the solution, and Green hints are at most the matching positions.
C4_CountConservation ==
    pc = "done" =>
        \A c \in Alphabet :
            /\ Cardinality(Hinted(c, Green)) + Cardinality(Hinted(c, Yellow))
                  <= Cardinality(Occ(solution, c))
            /\ Cardinality(Hinted(c, Green)) <= Cardinality(Matching(c))

\* C4 witness: the guess holds a character more often than the solution, with
\* a Green, a Yellow and a Black hint for it.
C4_Witness ==
    /\ pc = "done"
    /\ \E c \in Alphabet :
          /\ Cardinality(Occ(guess, c)) > Cardinality(Occ(solution, c))
          /\ Hinted(c, Green) # {}
          /\ Hinted(c, Yellow) # {}
          /\ Hinted(c, Black) # {}

\* The occurrences of c in the solution that are left for position p of the
\* second pass: all of them, less the matching ones, less the Yellow hints
\* given to the left of p.
Unaccounted(c, p) ==
    Cardinality(Occ(solution, c)) - Cardinality(Matching(c))
        - Cardinality({q \in Hinted(c, Yellow) : q < p})

\* C5: a character has a Black hint only when its Green and Yellow hints
\* account for every occurrence in the solution; and a position that does not
\* match is Yellow whenever an occurrence is still unaccounted for.
C5_AbsentOnlyWhenExhausted ==
    pc = "done" =>
        /\ \A c \in Alphabet :
              Hinted(c, Black) # {} =>
                  Cardinality(Hinted(c, Green)) + Cardinality(Hinted(c, Yellow))
                      = Cardinality(Occ(solution, c))
        /\ \A p \in Positions :
              (guess[p] # solution[p] /\ Unaccounted(guess[p], p) > 0)
                  => pattern.hints[p] = Yellow

\* C5 witness: a Black hint for a character the solution holds, next to a
\* Yellow hint for a character with an occurrence left.
C5_Witness ==
    /\ pc = "done"
    /\ \E p, q \in Positions :
          /\ pattern.hints[p] = Black
          /\ Occ(solution, guess[p]) # {}
          /\ pattern.hints[q] = Yellow

\* C13: from_solution_and_guess never fails and yields SIZE hints, each one of
\* Green, Yellow, Black: whenever the first loop takes an occurrence away the
\* count of the character exists and is at least 1, no count is ever negative,
\* and every position has a hint when the second loop is over.
C13_DerivationIsTotal ==
    /\ pc # "panicked"
    /\ pc \in {"pass1", "pass2", "collect", "done"} =>
          /\ ~st.panicked
          /\ \A c \in DOMAIN st.solution_chars : st.solution_chars[c] >= 0
    /\ (pc = "pass1" /\ guess[i] = solution[i]) =>
          /\ guess[i] \in DOMAIN st.solution_chars
          /\ st.solution_chars[guess[i]] >= 1
    /\ pc \in {"collect", "done"} => st.hints \in HintSeqs
    /\ pc = "done" => (pattern.guess = guess /\ pattern.hints \in HintSeqs)

\* C13 witness: a finished pattern for a guess that repeats a character the
\* solution holds twice: both occurrences are taken in the first loop and a
\* third position of the character is Black.
C13_Witness ==
    /\ pc = "done"
    /\ \E p, q, r \in Positions :
          /\ p < q /\ guess[p] = guess[q] /\ guess[q] = guess[r]
          /\ pattern.hints[p] = Green
          /\ pattern.hints[q] = Green
          /\ pattern.hints[r] = Black
          /\ st.solution_chars[guess[p]] = 0

(***************************************************************************)
(* Properties of constraint derivation (SpecConstraints).                  *)
(***************************************************************************)

\* The candidate, taken as the solution, gives the guess exactly the hints hs.
Reproduces(w, g, hs) == from_solution_and_guess(w, g).hints = hs

\* No Black hint lies to the left of a Yellow hint of the same character.
YellowBeforeBlack(g, hs) ==
    \A p, q \in Positions :
        (p < q /\ g[p] = g[q] /\ hs[p] = Black) => hs[q] # Yellow

\* C1 as stated: for any guess and any five hints, the constraints of the
\* pattern accept a candidate exactly when the candidate, taken as the
\* solution, gives the guess those hints.
C1_AsStated ==
    pc = "matched" =>
        \A w \in Words : (w \in result) <=> Reproduces(w, guess, hints)

\* C1 as amended: the equivalence holds for every pattern in which no Black
\* hint lies to the left of a Yellow hint of the same character.
C1_MatchesIffReproduces ==
    (pc = "matched" /\ YellowBeforeBlack(guess, hints)) =>
        \A w \in Words : (w \in result) <=> Reproduces(w, guess, hints)

\* C1 witness: a pattern with a Yellow hint followed by a Black hint of the
\* same character, for which a candidate is accepted and another rejected.
C1_Witness ==
    /\ pc = "matched"
    /\ YellowBeforeBlack(guess, hints)
    /\ \E p, q \in Positions :
          p < q /\ guess[p] = guess[q] /\ hints[p] = Yellow /\ hints[q] = Black
    /\ result # {}
    /\ result # Words

\* How many positions of the guess hold c with the hint h in the given hints.
HintCount(c, h) == Cardinality({p \in Positions : guess[p] = c /\ hints[p] = h})

\* The free positions of c: all but those where the guess holds c with Green.
FreePositions(c) == {p \in Positions : ~(guess[p] = c /\ hints[p] = Green)}

\* How often w holds c at the free positions of c.
FreeCount(w, c) == Cardinality({p \in FreePositions(c) : w[p] = c})

\* The characters of the guess.
GuessChars == {guess[p] : p \in Positions}

\* C16: for a character of the guess with a Black hint and Y Yellow hints, an
\* accepted candidate holds the character at most Y times at its free
\* positions: not at all there when Y = 0, and exactly Y times when Y > 0.
C16_UpperBound ==
    pc = "matched" =>
        \A c \in GuessChars :
            HintCount(c, Black) > 0 =>
                \A w \in result :
                    /\ FreeCount(w, c) <= HintCount(c, Yellow)
                    /\ HintCount(c, Yellow) = 0 =>
                          \A p \in FreePositions(c) : w[p] # c
                    /\ HintCount(c, Yellow) > 0 =>
                          FreeCount(w, c) = HintCount(c, Yellow)

\* C16 witness: a character with a Green, a Yellow and a Black hint; a
\* candidate is accepted, and a candidate that holds the character once more
\* is not.
C16_Witness ==
    /\ pc = "matched"
    /\ \E c \in GuessChars :
          /\ HintCount(c, Green) > 0
          /\ HintCount(c, Yellow) > 0
          /\ HintCount(c, Black) > 0
          /\ result # {}
          /\ \E w \in Words \ result :
                FreeCount(w, c) = HintCount(c, Yellow) + 1

\* C17: for a character of the guess with Y > 0 Yellow hints, an accepted
\* candidate holds the character at least Y times at its free positions, and
\* a candidate that holds it less often there is rejected.
C17_LowerBound ==
    pc = "matched" =>
        \A c \in GuessChars :
            HintCount(c, Yellow) > 0 =>
                /\ \A w \in result : FreeCount(w, c) >= HintCount(c, Yellow)
                /\ \A w \in Words :
                      FreeCount(w, c) < HintCount(c, Yellow) => w \notin result

\* C17 witness: a character with a Green and a Yellow hint and no Black
\* hint; a candidate with two at the free positions is accepted, and one that
\* holds the character at the Green position only is rejected.
C17_Witness ==
    /\ pc = "matched"
    /\ \E c \in GuessChars :
          /\ HintCount(c, Green) = 1
          /\ HintCount(c, Yellow) = 1
          /\ HintCount(c, Black) = 0
          /\ \E w \in result : FreeCount(w, c) = 2
          /\ \E w \in Words \ result :
                /\ FreeCount(w, c) = 0
                /\ \A p \in Positions :
                      IF hints[p] = Green THEN w[p] = guess[p] ELSE w[p] # guess[p]

\* C18: an accepted candidate holds the character of the guess at every
\* position with a Green hint, and another character at every position with
\* a Yellow or a Black hint.
C18_PerPosition ==
    pc = "matched" =>
        \A w \in result : \A p \in Positions :
            IF hints[p] = Green THEN w[p] = guess[p] ELSE w[p] # guess[p]

\* C18 witness: a pattern with a Green, a Yellow and a Black hint that accepts
\* a candidate.
C18_Witness ==
    /\ pc = "matched"
    /\ \E p, q, r \in Positions :
          hints[p] = Green /\ hints[q] = Yellow /\ hints[r] = Black
    /\ result # {}

(***************************************************************************)
(* Properties of filter, solve and matches.                                *)
(***************************************************************************)

\* How often w stands in the list ws.
Count(ws, w) == Cardinality({k \in 1..Len(ws) : ws[k] = w})

\* The words standing in the list ws.
Range(ws) == {ws[k] : k \in 1..Len(ws)}

\* The Constraints filter derives for the guess g.
ConstraintsOf(g) == from_pattern(from_solution_and_guess(solution, g))

\* C6: the solution satisfies the Constraints of each of its guesses, and
\* filter keeps every occurrence of the solution in the candidate list.
C6_Soundness ==
    pc = "filter" =>
        /\ \A k \in 1..Len(guesses) :
              Constraints_matches(ConstraintsOf(guesses[k]), solution)
        /\ Count(result, solution) = Count(words, solution)

\* C6 witness: the solution is a candidate and is kept after two guesses, both
\* different from it and one sharing a letter with it in the wrong place.
C6_Witness ==
    /\ pc = "filter"
    /\ Len(guesses) = 2
    /\ solution \notin Range(guesses)
    /\ Count(words, solution) > 0
    /\ Count(result, solution) > 0
    /\ \E p \in Positions :
          from_solution_and_guess(solution, guesses[1]).hints[p] = Yellow

\* C8: solve, given each guess with the hints the solution produces for it,
\* returns the list filter returns for the solution and the guesses.
C8_SolveAsFilter ==
    pc = "solve" => result = filter(words, solution, guesses)

\* C8 witness: solve with two guesses keeps a candidate that is not the
\* solution.
C8_Witness ==
    /\ pc = "solve"
    /\ Len(guesses) = 2
    /\ guesses[1] # guesses[2]
    /\ result # <<>>
    /\ result[1] # solution

\* The guesses in the opposite order.
Reversed(gs) == [k \in 1..Len(gs) |-> gs[Len(gs) + 1 - k]]

\* The candidates that filter keeps for each of the first n guesses alone.
RECURSIVE KeptByEach(_)
KeptByEach(n) ==
    IF n = 0 THEN Range(words)
    ELSE KeptByEach(n - 1) \cap Range(filter(words, solution, <<guesses[n]>>))

\* C9: a candidate is in the result of filter exactly when it is in the result
\* of filter for each guess alone; the order of the guesses plays no part, and
\* without guesses every candidate is returned.
C9_GuessesCombineByAnd ==
    pc = "filter" =>
        /\ Range(result) = KeptByEach(Len(guesses))
        /\ result = filter(words, solution, Reversed(guesses))
        /\ (guesses = <<>> => result = words)

\* C9 witness: a candidate that the first guess alone keeps and the second
\* guess alone drops, and so is dropped.
C9_Witness ==
    /\ pc = "filter"
    /\ Len(guesses) = 2
    /\ words # <<>>
    /\ filter(words, solution, <<guesses[1]>>) = words
    /\ filter(words, solution, <<guesses[2]>>) = <<>>
    /\ result = <<>>

\* C7: matches returns each candidate as often as it stands in the list when
\* the candidate, used as the guess against the solution, gets the target
\* hints, and not at all otherwise.
C7_MatchByPattern ==
    pc = "matches" =>
        /\ Range(result) =
              {w \in Range(words) : from_solution_and_guess(solution, w).hints = hints}
        /\ \A w \in Range(result) : Count(result, w) = Count(words, w)

\* C7 witness: a candidate other than the solution is returned for a target
\* with a Yellow hint.
C7_Witness ==
    /\ pc = "matches"
    /\ result # <<>>
    /\ result[1] # solution
    /\ \E p \in Positions : hints[p] = Yellow

\* C10: with the solution as the only guess, filter returns exactly the
\* candidates equal to the solution, and every other word fails the
\* Constraints of that guess.
C10_GuessIsSolution ==
    (pc = "filter" /\ guesses = <<solution>>) =>
        /\ result = [k \in 1..Count(words, solution) |-> solution]
        /\ LET constraints_of_solution == ConstraintsOf(solution)
           IN \A w \in (Words \cup SampleWords) \ {solution} :
                  ~Constraints_matches(constraints_of_solution, w)

\* C10 witness: the solution is the guess and stands in a list next to
\* another word; only the solution is returned.
C10_Witness ==
    /\ pc = "filter"
    /\ guesses = <<solution>>
    /\ Len(words) = 2
    /\ words[1] # solution
    /\ words[2] = solution
    /\ result = <<solution>>

\* C19: with one guess, filter returns exactly the candidates that, taken as
\* the solution, give the guess the hints the solution gives it; and so the
\* Constraints derived from the pattern of a solution accept a word exactly
\* when the word reproduces that pattern.
C19_FilterIsFeedbackEquality ==
    (pc = "filter" /\ Len(guesses) = 1) =>
        result = SelectSeq(words,
                     LAMBDA w : from_solution_and_guess(w, guesses[1]).hints
                                = from_solution_and_guess(solution, guesses[1]).hints)

\* C19 witness: every word over the alphabet is a candidate, the guess gets a
\* Yellow and a Black hint for one character, and filter keeps the solution
\* and other words and drops others.
C19_Witness ==
    /\ pc = "filter"
    /\ words = Dictionary
    /\ Len(guesses) = 1
    /\ \E p, q \in Positions :
          /\ guesses[1][p] = guesses[1][q]
          /\ from_solution_and_guess(solution, guesses[1]).hints[p] = Yellow
          /\ from_solution_and_guess(solution, guesses[1]).hints[q] = Black
    /\ Len(result) > 1
    /\ Len(result) < Len(words)

(***************************************************************************)
(* Properties of the returned list (SpecLists).                            *)
(***************************************************************************)

\* The operation of the finished run, applied to the candidate list ws.
Again(ws) ==
    IF pc = "filter" THEN filter(ws, solution, guesses)
    ELSE IF pc = "solve" THEN solve(ws, guesses_and_hints)
    ELSE matches(ws, solution, hints)

\* The lists returned for each candidate of ws alone, from the n-th on, one
\* after the other.
RECURSIVE OneByOne(_, _)
OneByOne(ws, n) ==
    IF n > Len(ws) THEN <<>> ELSE Again(<<ws[n]>>) \o OneByOne(ws, n + 1)

\* r is ws with some of its elements left out.
IsSubsequence(r, ws) ==
    \E f \in [1..Len(r) -> 1..Len(ws)] :
        /\ \A k \in 1..Len(r) : r[k] = ws[f[k]]
        /\ \A j, k \in 1..Len(r) : j < k => f[j] < f[k]

\* C11: the list returned by filter, solve and matches is the candidate list
\* with some elements left out, in the same order, and is what the operation
\* returns for each candidate alone, put together in the order of the list.
C11_OrderPreserved ==
    pc \in {"filter", "solve", "matches"} =>
        /\ IsSubsequence(result, words)
        /\ result = OneByOne(words, 1)

\* C11 witness: filter with a guess returns both of two different candidates,
\* in the order of the list.
C11_Witness ==
    /\ pc = "filter"
    /\ guesses # <<>>
    /\ Len(words) = 2
    /\ words[1] # words[2]
    /\ result = words
    /\ words[1] # solution /\ words[2] # solution

\* C12: filter and solve, applied with the same guesses (and hints) to the
\* list they returned, return that list unchanged.
C12_IdempotentFiltering ==
    pc \in {"filter", "solve"} => Again(result) = result

\* C12 witness: solve with a guess drops one of two candidates and keeps the
\* other.
C12_Witness ==
    /\ pc = "solve"
    /\ guesses # <<>>
    /\ Len(words) = 2
    /\ Len(result) = 1

(***************************************************************************)
(* Properties of load_words (SpecLoad).                                    *)
(***************************************************************************)

\* The Words of the lines from the n-th on, in file order.
RECURSIVE ValidWords(_, _)
ValidWords(lines, n) ==
    IF n > Len(lines) THEN <<>>
    ELSE (IF lines[n].ok /\ Word_from_str(lines[n].value).ok
          THEN <<Word_from_str(lines[n].value).value>>
          ELSE <<>>) \o ValidWords(lines, n + 1)

\* C14 as stated: the list load_words returns holds no Word twice, wherever
\* the equal words stand in the file, and holds every Word of the file, in
\* file order.
C14_AsStated ==
    pc = "loaded" =>
        /\ \A j, k \in 1..Len(result.value) :
              j # k => result.value[j] # result.value[k]
        /\ Range(result.value) = Range(ValidWords(input.value, 1))
        /\ IsSubsequence(result.value, ValidWords(input.value, 1))

\* C14, what load_words does: the returned list holds every Word of the file
\* in file order and no Word twice in a row; equal Words that are apart in the
\* file are both returned.
C14_AdjacentDuplicatesRemoved ==
    pc = "loaded" =>
        /\ \A k \in 1..(Len(result.value) - 1) :
              result.value[k] # result.value[k + 1]
        /\ Range(result.value) = Range(ValidWords(input.value, 1))
        /\ IsSubsequence(result.value, ValidWords(input.value, 1))
        /\ result.value = dedup(ValidWords(input.value, 1))

\* C14 witness: a file with the same Word on two lines that are apart; the
\* Word is returned twice.
C14_Witness ==
    /\ pc = "loaded"
    /\ Len(input.value) = 3
    /\ Len(result.value) = 3
    /\ result.value[1] = result.value[3]

(***************************************************************************)
(* Properties of parse_hints (SpecParse).                                  *)
(***************************************************************************)

\* The text s is five characters, each one of g, y, b or their capitals.
WellFormedHints(s) ==
    /\ Len(s) = SIZE
    /\ \A p \in 1..Len(s) : s[p] \in {"g", "y", "b", "G", "Y", "B"}

\* The hints the text s stands for.
HintsOf(s) ==
    [p \in 1..Len(s) |->
        IF s[p] \in {"g", "G"} THEN Green
        ELSE IF s[p] \in {"y", "Y"} THEN Yellow ELSE Black]

\* C15: parse_hints returns an error for a text that is not five characters
\* or holds a character other than g, y, b in either case, and otherwise the
\* five hints the characters stand for; matches and solve are only ever
\* called with five hints.
C15_ParseHintsFailsFast ==
    /\ pc = "parse_hints" =>
          IF WellFormedHints(input)
          THEN result = Ok(HintsOf(input)) /\ result.value \in HintSeqs
          ELSE ~result.ok
    /\ (pc = "parse_guess_and_hints" /\ result.ok) =>
          /\ WellFormedHints(split(input, ",")[2])
          /\ result.value[2] = HintsOf(split(input, ",")[2])
    /\ pc = "matches" => hints \in HintSeqs
    /\ pc = "solve" =>
          \A k \in 1..Len(guesses_and_hints) : guesses_and_hints[k][2] \in HintSeqs

\* C15 witness: a text in capitals and small letters is parsed and matches is
\* called with its hints.
C15_Witness ==
    /\ pc = "matches"
    /\ input = <<"G", "y", "b", "y", "g">>
    /\ hints = <<Green, Yellow, Black, Yellow, Green>>

====
